---- MODULE Spec2Model ----
(***************************************************************************)
(* Near-Earth objects, their close approaches, and the CSV / JSON writers  *)
(* of src/models.py and src/write.py, as a state machine.                  *)
(*                                                                         *)
(* The heap holds the NearEarthObject and CloseApproach objects built so   *)
(* far.  One writer call is followed step by step: open, header, one step  *)
(* per element of `results`, close.  Python values are records             *)
(* [ty, v]: the type name and the text str() gives for the value.          *)
(***************************************************************************)
EXTENDS Integers, Sequences, FiniteSets, TLC

VARIABLES
    neos,          \* heap: NEO id -> NearEarthObject fields
    cas,           \* heap: approach id -> CloseApproach fields
    pc,            \* position of the one writer call
    fn,            \* which writer was called ("" before the call)
    results,       \* the call's `results` argument: a sequence of approach ids
    idx,           \* 1-based position of the for loop in `results`
    top_lvl_list,  \* write_to_json's list under construction
    fileOpen,      \* the file object f is open
    opens,         \* number of open() calls made by the current writer call
    csvOut,        \* content of the CSV file: rows of field texts
    jsonOut,       \* content of the JSON file: text
    err            \* exception that left the call ("" if none)

vars == <<neos, cas, pc, fn, results, idx, top_lvl_list, fileOpen, opens,
          csvOut, jsonOut, err>>

heap == <<neos, cas>>
call == <<pc, fn, results, idx, top_lvl_list, fileOpen, opens, csvOut, jsonOut, err>>

(***************************************************************************)
(* Bounds of the model.                                                    *)
(***************************************************************************)
MaxResults == 2      \* longest `results` sequence handed to a writer
NeoIds == {1, 2}     \* identities of the NearEarthObject objects
CaIds == {1, 2}      \* identities of the CloseApproach objects

(***************************************************************************)
(* Python values.                                                          *)
(***************************************************************************)
PyStr(s) == [ty |-> "str", v |-> s]
PyFloat(r) == [ty |-> "float", v |-> r]
PyInt(r) == [ty |-> "int", v |-> r]
PyBool(b) == [ty |-> "bool", v |-> IF b THEN "True" ELSE "False"]
None == [ty |-> "NoneType", v |-> "None"]
NaN == PyFloat("nan")

\* A reference to no object (the `None` stored in CloseApproach.neo).
NoneRef == 0

\* float(x) on the values the model supplies; strings by the table FloatOfStr.
FloatOfStr == [s \in {"0.5", "16.75", "0.0865", "nan"} |-> s]
CanFloat(x) ==
    \/ x.ty \in {"float", "int", "bool"}
    \/ x.ty = "str" /\ x.v \in DOMAIN FloatOfStr
float(x) ==
    CASE x.ty = "float" -> x
      [] x.ty = "int" -> PyFloat(x.v \o ".0")
      [] x.ty = "bool" -> PyFloat(IF x.v = "True" THEN "1.0" ELSE "0.0")
      [] x.ty = "str" -> PyFloat(FloatOfStr[x.v])

\* x == y on Python values: a not-a-number float is unequal to everything,
\* itself included.
PyEq(x, y) ==
    IF x.ty = "float" /\ y.ty = "float" /\ (x.v = "nan" \/ y.v = "nan")
    THEN FALSE
    ELSE x = y

\* bool(x): the truth value `if x` and `x if c else y` test.
Truthy(x) ==
    CASE x.ty = "bool" -> x.v = "True"
      [] x.ty = "NoneType" -> FALSE
      [] x.ty = "str" -> x.v # ""
      [] x.ty = "int" -> x.v # "0"
      [] x.ty = "float" -> x.v \notin {"0.0", "-0.0"}

\* f"{x}" / str(x)
str(x) == x.v

\* info[key] if key in info.keys() else default
InfoGet(info, key, default) ==
    IF key \in DOMAIN info THEN info[key] ELSE default

(***************************************************************************)
(* helpers.cd_to_datetime / helpers.datetime_to_str and the datetime type. *)
(***************************************************************************)
Pad2(n) == IF n < 10 THEN "0" \o ToString(n) ELSE ToString(n)
Pad4(n) ==
    IF n < 10 THEN "000" \o ToString(n)
    ELSE IF n < 100 THEN "00" \o ToString(n)
    ELSE IF n < 1000 THEN "0" \o ToString(n)
    ELSE ToString(n)

\* A calendar string "YYYY-MM-DD HH:MM" is given by its five fields.
ValidCalendar(c) ==
    /\ c.year \in 1..9999 /\ c.month \in 1..12 /\ c.day \in 1..31
    /\ c.hour \in 0..23 /\ c.minute \in 0..59

\* The instant parsed from a calendar string: no seconds in the input.
cd_to_datetime(c) ==
    [year |-> c.year, month |-> c.month, day |-> c.day,
     hour |-> c.hour, minute |-> c.minute, second |-> 0]

\* The display form: the instant without its seconds.
datetime_to_str(dt) ==
    Pad4(dt.year) \o "-" \o Pad2(dt.month) \o "-" \o Pad2(dt.day)
        \o " " \o Pad2(dt.hour) \o ":" \o Pad2(dt.minute)

\* str(datetime): what csv.writer writes for the raw instant o.time.
DatetimeStr(dt) ==
    Pad4(dt.year) \o "-" \o Pad2(dt.month) \o "-" \o Pad2(dt.day)
        \o " " \o Pad2(dt.hour) \o ":" \o Pad2(dt.minute)
        \o ":" \o Pad2(dt.second)

(***************************************************************************)
(* Inputs of the constructors.                                             *)
(***************************************************************************)
Designations == <<"433", "2020 AB">>

NeoInfos ==
    << << >>,
       [name |-> PyStr("Eros"), diameter |-> PyFloat("16.84"),
        hazardous |-> PyBool(FALSE)],
       [diameter |-> PyStr("0.5"), hazardous |-> PyBool(TRUE)],
       [name |-> PyStr("Eros"), hazardous |-> PyStr("Y")],
       [name |-> PyStr("Apophis"), diameter |-> PyInt("2"), orbit |-> PyStr("x")],
       [diameter |-> PyStr("nan"), hazardous |-> PyBool(FALSE)] >>

\* (time, info) arguments of CloseApproach; the last calendar string is
\* malformed.
CaArgs ==
    << [time |-> [year |-> 1900, month |-> 1, day |-> 1, hour |-> 0, minute |-> 27],
        info |-> [distance |-> PyFloat("0.0865"), velocity |-> PyStr("16.75")]],
       [time |-> [year |-> 2020, month |-> 12, day |-> 31, hour |-> 23, minute |-> 59],
        info |-> << >>],
       [time |-> [year |-> 2020, month |-> 13, day |-> 1, hour |-> 0, minute |-> 0],
        info |-> << >>] >>

(***************************************************************************)
(* NearEarthObject                                                         *)
(***************************************************************************)
\* NearEarthObject.__init__: the fields of the new object.
NewNeo(designation, info) ==
    [designation |-> designation,
     name |-> InfoGet(info, "name", None),
     diameter |-> IF "diameter" \in DOMAIN info
                  THEN float(info["diameter"]) ELSE NaN,
     hazardous |-> InfoGet(info, "hazardous", PyBool(FALSE)),
     approaches |-> << >>]

NearEarthObjectInit(n, designation, info) ==
    /\ pc = "idle"
    /\ n \notin DOMAIN neos
    /\ "diameter" \in DOMAIN info => CanFloat(info["diameter"])
    /\ neos' = neos @@ (n :> NewNeo(designation, info))
    /\ UNCHANGED <<cas, call>>

\* fullname without the ", " between designation and name.
fullname_noSeparator(neo) ==
    IF neo.name # None
    THEN neo.designation \o str(neo.name)
    ELSE neo.designation

\* NearEarthObject.fullname
fullname(neo) ==
    IF neo.name # None
    THEN neo.designation \o ", " \o str(neo.name)
    ELSE neo.designation

\* The clause __str__ appends for a diameter that equals itself.
DiameterClause(neo) == " It has a diameter of " \o str(neo.diameter) \o "m."

\* NearEarthObject.__str__
NeoStr(neo) ==
    "A NearEarthObject with designation " \o neo.designation \o "."
      \o (IF neo.name # None THEN " It's name is " \o str(neo.name) ELSE "")
      \o (IF PyEq(neo.diameter, neo.diameter) THEN DiameterClause(neo) ELSE "")
      \o (IF Truthy(neo.hazardous) THEN " It is endangering us all!"
          ELSE " It is harmless.")

(***************************************************************************)
(* CloseApproach                                                           *)
(***************************************************************************)
\* A constructor that stores the designation in `neo` instead of None.
NewCa_neoPreset(designation, time, info) ==
    [_designation |-> designation,
     time |-> cd_to_datetime(time),
     distance |-> IF "distance" \in DOMAIN info
                  THEN float(info["distance"]) ELSE PyFloat("0.0"),
     velocity |-> IF "velocity" \in DOMAIN info
                  THEN float(info["velocity"]) ELSE PyFloat("0.0"),
     neo |-> IF designation = "433" THEN 1 ELSE 2]

\* CloseApproach.__init__: the fields of the new object.
NewCa(designation, time, info) ==
    [_designation |-> designation,
     time |-> cd_to_datetime(time),
     distance |-> IF "distance" \in DOMAIN info
                  THEN float(info["distance"]) ELSE PyFloat("0.0"),
     velocity |-> IF "velocity" \in DOMAIN info
                  THEN float(info["velocity"]) ELSE PyFloat("0.0"),
     neo |-> NoneRef]

CloseApproachInit(a, designation, time, info) ==
    /\ pc = "idle"
    /\ a \notin DOMAIN cas
    /\ ValidCalendar(time)
    /\ "distance" \in DOMAIN info => CanFloat(info["distance"])
    /\ "velocity" \in DOMAIN info => CanFloat(info["velocity"])
    /\ cas' = cas @@ (a :> NewCa(designation, time, info))
    /\ UNCHANGED <<neos, call>>

\* CloseApproach.time_str
time_str(ca) == datetime_to_str(ca.time)

\* The linking step of the database constructor: the approach's neo becomes
\* the NEO of its designation, and the NEO's collection gains the approach.
Link(a, n) ==
    /\ pc = "idle"
    /\ a \in DOMAIN cas /\ n \in DOMAIN neos
    /\ cas[a].neo = NoneRef
    /\ neos[n].designation = cas[a]._designation
    /\ cas' = [cas EXCEPT ![a].neo = n]
    /\ neos' = [neos EXCEPT ![n].approaches = Append(@, a)]
    /\ UNCHANGED call

(***************************************************************************)
(* The file object of `with open(filename, "w") as f`.                     *)
(***************************************************************************)
\* The files before any writer call: content left by an earlier run.
StaleCsv == << <<"stale">> >>
StaleJson == "stale"

\* open(filename, "w") succeeds, the one open() of the call.
Open ==
    /\ opens' = 1
    /\ fileOpen' = TRUE

\* open(filename, "w") raises: no file object exists.
OpenFails ==
    /\ opens' = 1
    /\ fileOpen' = FALSE
    /\ pc' = "raised"
    /\ err' = "OSError"

\* Normal completion of the with block: f is closed and the call returns.
Return ==
    /\ pc' = "returned"
    /\ fileOpen' = FALSE
    /\ err' = err

\* An exception path without the with statement: f stays open.
Raise_leavesOpen(e) ==
    /\ pc' = "raised"
    /\ fileOpen' = fileOpen
    /\ err' = e

\* An exception leaves the with block: f is closed and the exception
\* propagates to the caller.
Raise(e) ==
    /\ pc' = "raised"
    /\ fileOpen' = FALSE
    /\ err' = e

\* The sequences of approaches a writer can be handed.
RECURSIVE SeqsOver(_, _)
SeqsOver(S, n) ==
    IF n = 0 THEN {<< >>}
    ELSE LET shorter == SeqsOver(S, n - 1)
         IN  shorter \cup {Append(s, x) : s \in shorter, x \in S}

\* How many fields of a row reach the file when its write fails.
PartialWrites == {0, 3, 7}

(***************************************************************************)
(* write_to_csv                                                            *)
(***************************************************************************)
\* The header with designation and name in each other's place.
fieldnames_swapped ==
    <<"datetime_utc", "distance_au", "velocity_km_s", "name", "designation",
      "diameter_km", "potentially_hazardous">>

fieldnames ==
    <<"datetime_utc", "distance_au", "velocity_km_s", "designation", "name",
      "diameter_km", "potentially_hazardous">>

IsDatetime(x) == "year" \in DOMAIN x

\* The text csv.writer writes for one field: "" for None, str(x) otherwise.
\* No text of the model holds a delimiter, a quote or a line break.
CsvField(x) ==
    IF IsDatetime(x) THEN DatetimeStr(x)
    ELSE IF x = None THEN ""
    ELSE str(x)

\* The line of text csv.writer emits for a row: the fields joined by commas.
RECURSIVE CsvTextLine(_)
CsvTextLine(row) ==
    IF Len(row) = 0 THEN ""
    ELSE IF Len(row) = 1 THEN row[1]
    ELSE row[1] \o "," \o CsvTextLine(Tail(row))

\* writer.writerow(row): the row of field texts.
writerow(row) == [i \in 1..Len(row) |-> CsvField(row[i])]

CsvName(neo) == IF neo.name # None THEN neo.name ELSE PyStr("")

\* The diameter written as it is, not-a-number included.
CsvDia_raw(neo) == neo.diameter

CsvDia(neo) ==
    IF PyEq(neo.diameter, neo.diameter) THEN neo.diameter ELSE PyStr("")

\* The line with the display string o.time_str in place of o.time.
CsvLine_timeStr(o) ==
    << PyStr(datetime_to_str(o.time)),
       o.distance,
       o.velocity,
       PyStr(o._designation),
       CsvName(neos[o.neo]),
       CsvDia(neos[o.neo]),
       neos[o.neo].hazardous >>

\* The tuple `line` built for approach o, whose neo is linked.
CsvLine(o) ==
    << o.time,
       o.distance,
       o.velocity,
       PyStr(o._designation),
       CsvName(neos[o.neo]),
       CsvDia(neos[o.neo]),
       neos[o.neo].hazardous >>

\* The call starts: open(filename, "w") succeeds.
CsvCall(res) ==
    /\ pc = "idle"
    /\ fn' = "write_to_csv"
    /\ results' = res
    /\ Open
    /\ csvOut' = << >>
    /\ pc' = "csv_header"
    /\ UNCHANGED <<heap, idx, top_lvl_list, jsonOut, err>>

\* The call starts: open(filename, "w") raises.
CsvOpenFails(res) ==
    /\ pc = "idle"
    /\ fn' = "write_to_csv"
    /\ results' = res
    /\ OpenFails
    /\ UNCHANGED <<heap, idx, top_lvl_list, csvOut, jsonOut>>

\* writer.writerow(fieldnames)
CsvWriteHeader ==
    /\ pc = "csv_header"
    /\ csvOut' = Append(csvOut, fieldnames)
    /\ idx' = 1
    /\ pc' = "csv_loop"
    /\ UNCHANGED <<heap, fn, results, top_lvl_list, fileOpen, opens, jsonOut, err>>

\* writer.writerow(fieldnames) raises an I/O error.
CsvWriteHeaderFails(n) ==
    /\ pc = "csv_header"
    /\ csvOut' = IF n = 0 THEN csvOut ELSE Append(csvOut, SubSeq(fieldnames, 1, n))
    /\ Raise("OSError")
    /\ UNCHANGED <<heap, fn, results, idx, top_lvl_list, opens, jsonOut>>

\* One iteration of the for loop on a linked approach.
CsvWriteRow ==
    /\ pc = "csv_loop"
    /\ idx <= Len(results)
    /\ cas[results[idx]].neo # NoneRef
    /\ csvOut' = Append(csvOut, writerow(CsvLine(cas[results[idx]])))
    /\ idx' = idx + 1
    /\ UNCHANGED <<heap, pc, fn, results, top_lvl_list, fileOpen, opens, jsonOut, err>>

\* The failing iteration with a cleanup that empties the file.
CsvRowAttributeError_rollback ==
    /\ pc = "csv_loop"
    /\ idx <= Len(results)
    /\ cas[results[idx]].neo = NoneRef
    /\ csvOut' = << >>
    /\ Raise("AttributeError")
    /\ UNCHANGED <<heap, fn, results, idx, top_lvl_list, opens, jsonOut>>

\* One iteration on an approach whose neo is None: o.neo.name raises.
CsvRowAttributeError ==
    /\ pc = "csv_loop"
    /\ idx <= Len(results)
    /\ cas[results[idx]].neo = NoneRef
    /\ Raise("AttributeError")
    /\ UNCHANGED <<heap, fn, results, idx, top_lvl_list, opens, csvOut, jsonOut>>

\* One iteration whose writer.writerow(line) raises an I/O error.
CsvWriteRowFails(n) ==
    /\ pc = "csv_loop"
    /\ idx <= Len(results)
    /\ cas[results[idx]].neo # NoneRef
    /\ csvOut' = IF n = 0 THEN csvOut
                 ELSE Append(csvOut,
                             SubSeq(writerow(CsvLine(cas[results[idx]])), 1, n))
    /\ Raise("OSError")
    /\ UNCHANGED <<heap, fn, results, idx, top_lvl_list, opens, jsonOut>>

\* The loop is exhausted: the with block ends.
CsvReturn ==
    /\ pc = "csv_loop"
    /\ idx > Len(results)
    /\ Return
    /\ UNCHANGED <<heap, fn, results, idx, top_lvl_list, opens, csvOut, jsonOut>>

(***************************************************************************)
(* write_to_json                                                           *)
(***************************************************************************)
\* neo_dict with the name passed through, None included.
NeoDict_rawName(neo) ==
    [designation |-> PyStr(neo.designation),
     name |-> neo.name,
     diameter_km |-> neo.diameter,
     potentially_hazardous |-> PyBool(Truthy(neo.hazardous))]

\* neo_dict of approach o
NeoDict(neo) ==
    [designation |-> PyStr(neo.designation),
     name |-> IF neo.name # None THEN neo.name ELSE PyStr(""),
     diameter_km |-> neo.diameter,
     potentially_hazardous |-> PyBool(Truthy(neo.hazardous))]

\* obj_dict of approach o, whose neo is linked
ObjDict(o) ==
    [datetime_utc |-> PyStr(datetime_to_str(o.time)),
     distance_au |-> o.distance,
     velocity_km_s |-> o.velocity,
     neo |-> NeoDict(neos[o.neo])]

\* json.dump of one scalar
JsonValue(x) ==
    CASE x.ty = "str" -> "\"" \o x.v \o "\""
      [] x.ty = "bool" -> IF x.v = "True" THEN "true" ELSE "false"
      [] x.ty = "NoneType" -> "null"
      [] x.ty = "float" -> IF x.v = "nan" THEN "NaN" ELSE x.v
      [] x.ty = "int" -> x.v

\* json.dump of the nested dict and of one element, keys in insertion order
JsonNeo(d) ==
    "{\"designation\": " \o JsonValue(d.designation)
      \o ", \"name\": " \o JsonValue(d.name)
      \o ", \"diameter_km\": " \o JsonValue(d.diameter_km)
      \o ", \"potentially_hazardous\": " \o JsonValue(d.potentially_hazardous)
      \o "}"

JsonObj(d) ==
    "{\"datetime_utc\": " \o JsonValue(d.datetime_utc)
      \o ", \"distance_au\": " \o JsonValue(d.distance_au)
      \o ", \"velocity_km_s\": " \o JsonValue(d.velocity_km_s)
      \o ", \"neo\": " \o JsonNeo(d.neo)
      \o "}"

RECURSIVE JsonItems(_)
JsonItems(l) ==
    IF Len(l) = 0 THEN ""
    ELSE IF Len(l) = 1 THEN JsonObj(l[1])
    ELSE JsonObj(l[1]) \o ", " \o JsonItems(Tail(l))

\* json.dump(l, f) of a list of obj_dicts
JsonDump(l) == "[" \o JsonItems(l) \o "]"

\* The call starts, on a fresh graph or on the results write_to_csv has just
\* written: open(filename, "w") succeeds.
JsonCall(res) ==
    /\ \/ pc = "idle"
       \/ pc = "returned" /\ fn = "write_to_csv" /\ res = results
    /\ fn' = "write_to_json"
    /\ results' = res
    /\ Open
    /\ jsonOut' = ""
    /\ pc' = "json_open"
    /\ UNCHANGED <<heap, idx, top_lvl_list, csvOut, err>>

\* The call starts: open(filename, "w") raises.
JsonOpenFails(res) ==
    /\ pc = "idle"
    /\ fn' = "write_to_json"
    /\ results' = res
    /\ OpenFails
    /\ UNCHANGED <<heap, idx, top_lvl_list, csvOut, jsonOut>>

\* The empty branch without its json.dump: nothing is written.
JsonDumpEmpty_nothing ==
    /\ pc = "json_open"
    /\ Len(results) = 0
    /\ jsonOut' = ""
    /\ Return
    /\ UNCHANGED <<heap, fn, results, idx, top_lvl_list, opens, csvOut>>

\* len(results) == 0: json.dump([], f)
JsonDumpEmpty ==
    /\ pc = "json_open"
    /\ Len(results) = 0
    /\ jsonOut' = "[]"
    /\ Return
    /\ UNCHANGED <<heap, fn, results, idx, top_lvl_list, opens, csvOut>>

\* else: top_lvl_list = []
JsonStartList ==
    /\ pc = "json_open"
    /\ Len(results) # 0
    /\ top_lvl_list' = << >>
    /\ idx' = 1
    /\ pc' = "json_loop"
    /\ UNCHANGED <<heap, fn, results, fileOpen, opens, csvOut, jsonOut, err>>

\* One iteration of the for loop on a linked approach.
JsonAppend ==
    /\ pc = "json_loop"
    /\ idx <= Len(results)
    /\ cas[results[idx]].neo # NoneRef
    /\ top_lvl_list' = Append(top_lvl_list, ObjDict(cas[results[idx]]))
    /\ idx' = idx + 1
    /\ UNCHANGED <<heap, pc, fn, results, fileOpen, opens, csvOut, jsonOut, err>>

\* One iteration on an approach whose neo is None: o.neo.designation raises.
JsonAttributeError ==
    /\ pc = "json_loop"
    /\ idx <= Len(results)
    /\ cas[results[idx]].neo = NoneRef
    /\ Raise("AttributeError")
    /\ UNCHANGED <<heap, fn, results, idx, top_lvl_list, opens, csvOut, jsonOut>>

\* json.dump(top_lvl_list, f) after the loop.
JsonDumpList ==
    /\ pc = "json_loop"
    /\ idx > Len(results)
    /\ jsonOut' = JsonDump(top_lvl_list)
    /\ Return
    /\ UNCHANGED <<heap, fn, results, idx, top_lvl_list, opens, csvOut>>

\* json.dump raises an I/O error: nothing, or only the first chunk, is written.
JsonDumpFails(chunk) ==
    /\ \/ pc = "json_open" /\ Len(results) = 0
       \/ pc = "json_loop" /\ idx > Len(results)
    /\ jsonOut' = chunk
    /\ Raise("OSError")
    /\ UNCHANGED <<heap, fn, results, idx, top_lvl_list, opens, csvOut>>

(***************************************************************************)
(* The state machine.                                                      *)
(***************************************************************************)
Init ==
    /\ neos = << >>
    /\ cas = << >>
    /\ pc = "idle"
    /\ fn = ""
    /\ results = << >>
    /\ idx = 0
    /\ top_lvl_list = << >>
    /\ fileOpen = FALSE
    /\ opens = 0
    /\ csvOut = StaleCsv
    /\ jsonOut = StaleJson
    /\ err = ""

\* Objects get the next free identity.
NextNeoId == Cardinality(DOMAIN neos) + 1
NextCaId == Cardinality(DOMAIN cas) + 1

\* The `results` a writer can be handed: approaches built so far.
Inputs == SeqsOver(DOMAIN cas, MaxResults)

Next ==
    \/ \E k \in 1..Len(NeoInfos) :
          /\ NextNeoId \in NeoIds
          /\ NearEarthObjectInit(NextNeoId, Designations[NextNeoId], NeoInfos[k])
    \/ \E d \in 1..Len(Designations), k \in 1..Len(CaArgs) :
          /\ NextCaId \in CaIds
          /\ CloseApproachInit(NextCaId, Designations[d], CaArgs[k].time,
                               CaArgs[k].info)
    \/ \E a \in CaIds, n \in NeoIds : Link(a, n)
    \/ \E res \in Inputs : CsvCall(res)
    \/ \E res \in Inputs : CsvOpenFails(res)
    \/ CsvWriteHeader
    \/ \E n \in PartialWrites : CsvWriteHeaderFails(n)
    \/ CsvWriteRow
    \/ CsvRowAttributeError
    \/ \E n \in PartialWrites : CsvWriteRowFails(n)
    \/ CsvReturn
    \/ \E res \in Inputs : JsonCall(res)
    \/ \E res \in Inputs : JsonOpenFails(res)
    \/ JsonDumpEmpty
    \/ JsonStartList
    \/ JsonAppend
    \/ JsonAttributeError
    \/ JsonDumpList
    \/ \E chunk \in {"", "["} : JsonDumpFails(chunk)

Spec == Init /\ [][Next]_vars

(***************************************************************************)
(* Properties.                                                             *)
(***************************************************************************)
IsNaN(x) == x.ty = "float" /\ x.v = "nan"

\* Number of data rows the for loop of write_to_csv has completed.
CsvRowsDone ==
    IF fn = "write_to_csv" THEN (IF idx >= 1 THEN idx - 1 ELSE 0)
    ELSE IF fn = "write_to_json" /\ csvOut # StaleCsv THEN Len(results)
    ELSE 0

\* The approach and the NEO behind the i-th element of `results`.
ResCa(i) == cas[results[i]]
ResNeo(i) == neos[cas[results[i]].neo]

\* The row carries the approach's own four fields and has seven fields.
RowIsOf(row, a) ==
    /\ Len(row) = 7
    /\ row[1] = DatetimeStr(cas[a].time)
    /\ row[2] = cas[a].distance.v
    /\ row[3] = cas[a].velocity.v
    /\ row[4] = cas[a]._designation

HeaderIsWritten ==
    /\ Len(csvOut) >= 1
    /\ csvOut[1] = <<"datetime_utc", "distance_au", "velocity_km_s",
                     "designation", "name", "diameter_km",
                     "potentially_hazardous">>
    /\ CsvTextLine(csvOut[1]) =
          "datetime_utc,distance_au,velocity_km_s,designation,name,diameter_km,potentially_hazardous"

\* C1: write_to_csv writes the header row with the seven field names in the
\* documented order, then one data row per approach in input order: while
\* the loop runs the file holds the header and the rows of the approaches
\* passed so far, and on return it holds len(results)+1 rows.
ThmC1 ==
    /\ (fn = "write_to_csv" /\ pc = "csv_loop") =>
          /\ HeaderIsWritten
          /\ Len(csvOut) = idx
          /\ \A i \in 1..(idx - 1) : RowIsOf(csvOut[i + 1], results[i])
    /\ (fn = "write_to_csv" /\ pc = "returned") =>
          /\ HeaderIsWritten
          /\ Len(csvOut) = Len(results) + 1
          /\ \A i \in 1..Len(results) : RowIsOf(csvOut[i + 1], results[i])

WitC1 ==
    /\ fn = "write_to_csv" /\ pc = "returned"
    /\ Len(results) >= 2
    /\ cas[results[1]] # cas[results[2]]

ErosJson ==
    "[{\"datetime_utc\": \"1900-01-01 00:27\", \"distance_au\": 0.0865, \"velocity_km_s\": 16.75, \"neo\": {\"designation\": \"433\", \"name\": \"Eros\", \"diameter_km\": 16.84, \"potentially_hazardous\": false}}]"

IsErosCase ==
    /\ Len(results) = 1
    /\ ResCa(1)._designation = "433"
    /\ ResCa(1).time = [year |-> 1900, month |-> 1, day |-> 1, hour |-> 0,
                        minute |-> 27, second |-> 0]
    /\ ResCa(1).distance = PyFloat("0.0865")
    /\ ResCa(1).velocity = PyFloat("16.75")
    /\ ResNeo(1).designation = "433"
    /\ ResNeo(1).name = PyStr("Eros")
    /\ ResNeo(1).diameter = PyFloat("16.84")
    /\ ResNeo(1).hazardous = PyBool(FALSE)

\* C2: write_to_json writes one top-level array: exactly [] for an empty
\* collection, and otherwise one object per approach in input order, each
\* with the keys datetime_utc, distance_au, velocity_km_s and a nested neo
\* object with designation, name, diameter_km, potentially_hazardous.
ThmC2 ==
    (fn = "write_to_json" /\ pc = "returned") =>
        IF Len(results) = 0
        THEN jsonOut = "[]"
        ELSE /\ Len(top_lvl_list) = Len(results)
             /\ jsonOut = JsonDump(top_lvl_list)
             /\ IsErosCase => jsonOut = ErosJson
             /\ \A i \in 1..Len(results) :
                   LET d == top_lvl_list[i]
                   IN  /\ DOMAIN d = {"datetime_utc", "distance_au",
                                      "velocity_km_s", "neo"}
                       /\ DOMAIN d.neo = {"designation", "name", "diameter_km",
                                          "potentially_hazardous"}
                       /\ d.datetime_utc.v = datetime_to_str(ResCa(i).time)
                       /\ d.distance_au = ResCa(i).distance
                       /\ d.velocity_km_s = ResCa(i).velocity
                       /\ d.neo.designation.v = ResNeo(i).designation

WitC2 ==
    /\ fn = "write_to_json" /\ pc = "returned"
    /\ Len(results) >= 2
    /\ cas[results[1]] # cas[results[2]]
    /\ ResNeo(1) # ResNeo(2)

\* str(neo) as the documentation gives it, with or without the diameter
\* clause.
StrWith(neo, clause) ==
    "A NearEarthObject with designation " \o neo.designation \o "."
      \o (IF neo.name = None THEN "" ELSE " It's name is " \o neo.name.v)
      \o clause
      \o (IF Truthy(neo.hazardous) THEN " It is endangering us all!"
          ELSE " It is harmless.")

\* C3: for a NEO whose diameter is the not-a-number sentinel, str(neo) has
\* no diameter clause and every CSV row written for an approach linked to it
\* has an empty diameter_km field; for a known diameter the clause is there
\* and the field holds the number.
ThmC3 ==
    /\ \A n \in DOMAIN neos :
          NeoStr(neos[n]) =
             IF IsNaN(neos[n].diameter)
             THEN StrWith(neos[n], "")
             ELSE StrWith(neos[n], " It has a diameter of "
                                      \o neos[n].diameter.v \o "m.")
    /\ \A i \in 1..CsvRowsDone :
          csvOut[i + 1][6] =
             IF IsNaN(ResNeo(i).diameter) THEN "" ELSE ResNeo(i).diameter.v

WitC3 ==
    /\ fn = "write_to_csv" /\ pc = "returned"
    /\ Len(results) >= 2
    /\ IsNaN(ResNeo(1).diameter)
    /\ ~IsNaN(ResNeo(2).diameter)
    /\ csvOut[2][6] = ""
    /\ csvOut[3][6] = "16.84"

\* C4: for an approach whose NEO has no name both writers emit the empty
\* string (the JSON value is "" and never null); a name that is present is
\* emitted unchanged by both.
ThmC4 ==
    /\ \A i \in 1..CsvRowsDone :
          csvOut[i + 1][5] =
             IF ResNeo(i).name = None THEN "" ELSE ResNeo(i).name.v
    /\ \A i \in 1..Len(top_lvl_list) :
          /\ top_lvl_list[i].neo.name =
                IF ResNeo(i).name = None THEN PyStr("") ELSE ResNeo(i).name
          /\ JsonValue(top_lvl_list[i].neo.name) # "null"
          /\ ResNeo(i).name = None =>
                JsonValue(top_lvl_list[i].neo.name) = "\"\""

WitC4 ==
    /\ fn = "write_to_json" /\ pc = "returned"
    /\ csvOut # StaleCsv
    /\ Len(results) >= 2
    /\ ResNeo(1).name = None
    /\ ResNeo(2).name = PyStr("Eros")

\* C5: in every data row written by write_to_csv the potentially_hazardous
\* field is exactly True when the NEO is hazardous and exactly False
\* otherwise, for every NEO the constructor can produce.
ClaimC5 ==
    \A i \in 1..CsvRowsDone :
        csvOut[i + 1][7] =
           IF Truthy(ResNeo(i).hazardous) THEN "True" ELSE "False"

ThmC7 ==
    [][\A a \in DOMAIN cas' :
          /\ a \notin DOMAIN cas => cas'[a].neo = NoneRef
          /\ (a \in DOMAIN cas /\ cas[a].neo # NoneRef) =>
                cas'[a].neo = cas[a].neo]_vars

WitC7 ==
    /\ pc = "returned"
    /\ \E a \in DOMAIN cas, b \in DOMAIN cas :
          /\ cas[a].neo = 1 /\ cas[b].neo = 2
          /\ neos[1].approaches = <<a>>

\* C8: fullname is the designation alone when the name is absent, and the
\* designation, then ", ", then the name when it is present.
ThmC8 ==
    \A n \in DOMAIN neos :
        /\ neos[n].name = None => fullname(neos[n]) = neos[n].designation
        /\ neos[n].name # None =>
              fullname(neos[n]) = neos[n].designation \o ", " \o neos[n].name.v
        /\ (neos[n].designation = "433" /\ neos[n].name = PyStr("Eros")) =>
              fullname(neos[n]) = "433, Eros"

WitC8 ==
    /\ DOMAIN neos = {1, 2}
    /\ neos[1].name = PyStr("Eros")
    /\ neos[2].name = None

Running == {"csv_header", "csv_loop", "json_open", "json_loop"}

\* C9: each writer opens the file once, and the file is closed whenever the
\* call has ended, by return or by an exception; it is open only while the
\* call runs.
ThmC9 ==
    /\ pc \in {"returned", "raised"} => (~fileOpen /\ opens = 1)
    /\ pc \in Running => (fileOpen /\ opens = 1)
    /\ pc = "idle" => (~fileOpen /\ opens = 0)

WitC9 ==
    /\ fn = "write_to_json" /\ pc = "raised" /\ err = "AttributeError"
    /\ idx = 2
    /\ Len(top_lvl_list) = 1
    /\ ~fileOpen

\* The file holds the header and exactly the rows of the first k-1
\* approaches, k = idx being the approach at which the call failed.
HeaderAndRowsBefore(k) ==
    /\ HeaderIsWritten
    /\ Len(csvOut) = k
    /\ \A i \in 1..(k - 1) : RowIsOf(csvOut[i + 1], results[i])

\* C10 as stated: whenever write_to_csv fails while processing the k-th
\* approach, the file holds the header and exactly the rows of the first
\* k-1 approaches.
ClaimC10 ==
    (fn = "write_to_csv" /\ pc = "raised" /\ idx >= 1) =>
        HeaderAndRowsBefore(idx)

\* C10 amended: when write_to_csv fails at the k-th approach because that
\* approach's neo is unset, the file holds the header and exactly the rows
\* of the first k-1 approaches.
ThmC10 ==
    (fn = "write_to_csv" /\ pc = "raised" /\ idx >= 1
        /\ err = "AttributeError") =>
        /\ ResCa(idx).neo = NoneRef
        /\ HeaderAndRowsBefore(idx)

WitC10 ==
    /\ fn = "write_to_csv" /\ pc = "raised" /\ err = "AttributeError"
    /\ idx = 2
    /\ Len(csvOut) = 2
====
